---- MODULE Spec2Model ----
(***************************************************************************)
(* A model of the jsonapi-go codec (src/jsonapi.go): Marshal turns a Go     *)
(* value into the bytes of a JSON:API document, Unmarshal decodes such      *)
(* bytes into a Document and projects it onto a target.                     *)
(*                                                                          *)
(* Go values are records with a kind ("struct", "slice", "ptr", "nilptr",   *)
(* "nil") and, for the values that have methods, the set caps of the        *)
(* interfaces of src/jsonapi.go they satisfy:                               *)
(*   "ident"    MarshalResourceIdentifier  (GetID, GetType)                 *)
(*   "data"     MarshalData                (GetData)                        *)
(*   "errors"   MarshalErrors              (GetErrors)                      *)
(*   "included" MarshalIncluded            (GetIncluded)                    *)
(*   "meta"     MarshalMeta                (GetMeta)                        *)
(*   "rels"     MarshalRelationships       (GetRelationships)               *)
(* A pointer that may be nil is a sequence of length 0 or 1; a slice is a   *)
(* record with isNil and elems, because encoding/json writes a nil slice    *)
(* as null and an empty one as [].                                          *)
(***************************************************************************)
EXTENDS Integers, Sequences, FiniteSets, TLC

VARIABLES op, payload, doc, out, merr, wire, target0, target, udoc, uerr, calls

vars == <<op, payload, doc, out, merr, wire, target0, target, udoc, uerr, calls>>

\* The longest collection, to-many relationship, included list and error
\* list the inputs are drawn with.
MaxElems == 2

(***************************************************************************)
(* Pointers, slices, byte strings                                           *)
(***************************************************************************)
Nil == <<>>

Ptr(x) == <<x>>

Deref(p) == p[1]

NilSlice == [isNil |-> TRUE, elems |-> <<>>]

MkSlice(s) == [isNil |-> FALSE, elems |-> s]

\* append(s, x): the result of append is never a nil slice.
Append1(s, x) == [isNil |-> FALSE, elems |-> Append(s.elems, x)]

(***************************************************************************)
(* encoding/json: JSON values as trees, and their text                      *)
(***************************************************************************)
JNull == [j |-> "null"]

JStr(s) == [j |-> "str", s |-> s]

JInt(n) == [j |-> "int", n |-> n]

JObj(members) == [j |-> "obj", m |-> members]

JArr(elems) == [j |-> "arr", e |-> elems]

Member(k, v) == [k |-> k, v |-> v]

\* What encoding/json writes for the characters <, > and & of a string when
\* the encoder escapes HTML (json.Marshal, and an Encoder without
\* SetEscapeHTML(false)). The strings of the model that hold such a
\* character are listed here.
HTMLEscape(s) ==
    CASE s = "<3>" -> "\\u003c3\\u003e"
      [] s = "Q&A" -> "Q\\u0026A"
      [] OTHER -> s

\* The decoder's reading of a string literal: escapes are resolved.
HTMLUnescape(s) ==
    CASE s = "\\u003c3\\u003e" -> "<3>"
      [] s = "Q\\u0026A" -> "Q&A"
      [] OTHER -> s

EncString(s, escapeHTML) == JStr(IF escapeHTML THEN HTMLEscape(s) ELSE s)

RECURSIVE Render(_)
RECURSIVE RenderMembers(_)
RECURSIVE RenderElems(_)
Render(v) ==
    CASE v.j = "null" -> "null"
      [] v.j = "str" -> "\"" \o v.s \o "\""
      [] v.j = "int" -> ToString(v.n)
      [] v.j = "obj" -> "{" \o RenderMembers(v.m) \o "}"
      [] v.j = "arr" -> "[" \o RenderElems(v.e) \o "]"

RenderMembers(ms) ==
    IF ms = <<>> THEN ""
    ELSE "\"" \o Head(ms).k \o "\":" \o Render(Head(ms).v)
         \o (IF Len(ms) > 1 THEN "," ELSE "") \o RenderMembers(Tail(ms))

RenderElems(es) ==
    IF es = <<>> THEN ""
    ELSE Render(Head(es)) \o (IF Len(es) > 1 THEN "," ELSE "")
         \o RenderElems(Tail(es))

\* The bytes an Encoder leaves in its buffer: the value's text and the
\* newline Encode appends. json.Marshal appends nothing.
Raw(body, nl) == [body |-> body, nl |-> nl]

RawBytes(r) == Render(r.body) \o r.nl

\* An outer encoder compacts what a Marshaler or a RawMessage hands it:
\* the newline goes, the value stays.
Compact(r) == r.body

\* Members of an object by key; HasMember(obj, k) tells whether k is there.
HasMember(obj, k) == \E i \in 1..Len(obj.m) : obj.m[i].k = k

GetMember(obj, k) ==
    LET i == CHOOSE i \in 1..Len(obj.m) : obj.m[i].k = k
    IN  obj.m[i].v

(***************************************************************************)
(* Go values and the generic encoder                                        *)
(***************************************************************************)
\* A struct field: its JSON name, its Go kind ("string", "int" or "chan",
\* which encoding/json cannot encode), its value and its tag option
\* ("" , "omitempty", or "-" for a field tagged json:"-").
Field(name, kind, value, tag) ==
    [name |-> name, kind |-> kind, value |-> value, tag |-> tag]

IsEmptyValue(f) ==
    \/ f.kind = "string" /\ f.value = ""
    \/ f.kind = "int" /\ f.value = 0

Emitted(f) == f.tag # "-" /\ ~(f.tag = "omitempty" /\ IsEmptyValue(f))

EncField(f, escapeHTML) ==
    IF f.kind = "int" THEN JInt(f.value) ELSE EncString(f.value, escapeHTML)

RECURSIVE EncFields(_, _)
EncFields(fs, escapeHTML) ==
    IF fs = <<>> THEN <<>>
    ELSE (IF Emitted(Head(fs))
          THEN <<Member(Head(fs).name, EncField(Head(fs), escapeHTML))>>
          ELSE <<>>) \o EncFields(Tail(fs), escapeHTML)

\* enc.Encode(v) for a value handed over as interface{}: a struct is written
\* as the object of its emitted fields, a nil interface as null; a chan
\* field makes the encoder fail.
Unencodable(v) ==
    v.kind = "struct"
    /\ \E i \in 1..Len(v.fields) :
          v.fields[i].tag # "-" /\ v.fields[i].kind = "chan"

EncodeValue(v, escapeHTML) ==
    IF v.kind = "nil" THEN JNull ELSE JObj(EncFields(v.fields, escapeHTML))

Ok(v) == [err |-> "", val |-> v]

Fail(e, v) == [err |-> e, val |-> v]

\* The receiver of a method call: a pointer to a value has the methods the
\* value has, and the call reaches the value.
Recv(v) == IF v.kind = "ptr" THEN v.elem ELSE v

\* v.(I) for the interface named cap.
Has(v, cap) == Recv(v).kind \in {"struct", "slice"} /\ cap \in Recv(v).caps

\* The value GetData returns; a value may return itself.
GetData(v) == IF v.data.kind = "self" THEN v ELSE v.data

(***************************************************************************)
(* The Document model and its custom encoders                               *)
(***************************************************************************)
EmptyDocument == [Data |-> Nil, Errors |-> NilSlice, Included |-> NilSlice,
                  Meta |-> Nil]

EmptyDocumentData == [One |-> Nil, Many |-> NilSlice]

EmptyRelationshipData == [One |-> Nil, Many |-> NilSlice]

NoRelationships == [isNil |-> TRUE, names |-> {}, at |-> <<>>]

\* The relationship names of the model in the order encoding/json writes
\* the keys of a map (sorted).
RelNames == <<"author", "book", "reader", "readers">>

\* ResourceObjectIdentifier: type, and id with omitempty.
EncIdentifier(roi, escapeHTML) ==
    JObj(<<Member("type", EncString(roi.Type, escapeHTML))>>
         \o (IF roi.ID # "" THEN <<Member("id", EncString(roi.ID, escapeHTML))>>
             ELSE <<>>))

RECURSIVE EncIdentifiers(_, _)
EncIdentifiers(s, escapeHTML) ==
    IF s = <<>> THEN <<>>
    ELSE <<EncIdentifier(Head(s), escapeHTML)>>
         \o EncIdentifiers(Tail(s), escapeHTML)

\* relationshipData.MarshalJSON as it would be without the test on the
\* length of the id: One is written whenever it is there.
RelationshipDataAnyID(d) ==
    IF d.One # Nil
    THEN Raw(EncIdentifier(Deref(d.One), TRUE), "")
    ELSE IF d.Many.isNil THEN Raw(JNull, "")
         ELSE Raw(JArr(EncIdentifiers(d.Many.elems, TRUE)), "")

\* relationshipData.MarshalJSON: json.Marshal, which escapes HTML.
RelationshipDataMarshalJSON(d) ==
    IF d.One # Nil /\ Len(Deref(d.One).ID) > 0
    THEN Raw(EncIdentifier(Deref(d.One), TRUE), "")
    ELSE IF d.Many.isNil THEN Raw(JNull, "")
         ELSE Raw(JArr(EncIdentifiers(d.Many.elems, TRUE)), "")

\* A *relationship of the map: nil is written as null, otherwise the
\* struct with its one member data (no omitempty).
EncRelationship(r) ==
    IF r = Nil THEN JNull
    ELSE JObj(<<Member("data",
                  IF Deref(r).Data = Nil THEN JNull
                  ELSE Compact(RelationshipDataMarshalJSON(Deref(Deref(r).Data))))>>)

RECURSIVE EncRelationshipMap(_, _)
EncRelationshipMap(rels, names) ==
    IF names = <<>> THEN <<>>
    ELSE (IF Head(names) \in rels.names
          THEN <<Member(Head(names), EncRelationship(rels.at[Head(names)]))>>
          ELSE <<>>) \o EncRelationshipMap(rels, Tail(names))

\* ResourceObject: the embedded identifier, then attributes, meta and
\* relationships, each with omitempty.
EncResourceObject(ro, escapeHTML) ==
    JObj(EncIdentifier(ro, escapeHTML).m
         \o (IF ro.Attributes # Nil
             THEN <<Member("attributes", Compact(Deref(ro.Attributes)))>> ELSE <<>>)
         \o (IF ro.Meta # Nil
             THEN <<Member("meta", Compact(Deref(ro.Meta)))>> ELSE <<>>)
         \o (IF ro.Relationships.names # {}
             THEN <<Member("relationships",
                      JObj(EncRelationshipMap(ro.Relationships, RelNames)))>>
             ELSE <<>>))

RECURSIVE EncResourceObjects(_, _)
EncResourceObjects(s, escapeHTML) ==
    IF s = <<>> THEN <<>>
    ELSE <<EncResourceObject(Head(s), escapeHTML)>>
         \o EncResourceObjects(Tail(s), escapeHTML)

\* documentData.MarshalJSON: an Encoder with SetEscapeHTML(false).
DocumentDataMarshalJSON(d) ==
    IF d.One # Nil
    THEN Raw(EncResourceObject(Deref(d.One), FALSE), "\n")
    ELSE IF d.Many.isNil THEN Raw(JNull, "\n")
         ELSE Raw(JArr(EncResourceObjects(d.Many.elems, FALSE)), "\n")

\* ErrorObject: title and code with omitempty; source is a struct, which
\* omitempty never omits, with pointer omitempty inside.
EncErrorObject(e, escapeHTML) ==
    JObj((IF e.Title # "" THEN <<Member("title", EncString(e.Title, escapeHTML))>>
          ELSE <<>>)
         \o (IF e.Code # "" THEN <<Member("code", EncString(e.Code, escapeHTML))>>
             ELSE <<>>)
         \o <<Member("source",
                JObj(IF e.Source.Pointer # ""
                     THEN <<Member("pointer",
                              EncString(e.Source.Pointer, escapeHTML))>>
                     ELSE <<>>))>>)

RECURSIVE EncErrorObjects(_, _)
EncErrorObjects(s, escapeHTML) ==
    IF s = <<>> THEN <<>>
    ELSE <<EncErrorObject(Head(s), escapeHTML)>>
         \o EncErrorObjects(Tail(s), escapeHTML)

\* Document: data, errors, included, meta, each with omitempty.
EncDocument(d, escapeHTML) ==
    JObj((IF d.Data # Nil
          THEN <<Member("data", Compact(DocumentDataMarshalJSON(Deref(d.Data))))>>
          ELSE <<>>)
         \o (IF d.Errors.elems # <<>>
             THEN <<Member("errors", JArr(EncErrorObjects(d.Errors.elems, escapeHTML)))>>
             ELSE <<>>)
         \o (IF d.Included.elems # <<>>
             THEN <<Member("included",
                      JArr(EncResourceObjects(d.Included.elems, escapeHTML)))>>
             ELSE <<>>)
         \o (IF d.Meta # Nil THEN <<Member("meta", Compact(Deref(d.Meta)))>>
             ELSE <<>>))

(***************************************************************************)
(* Marshal                                                                  *)
(*                                                                          *)
(* Each function of src/jsonapi.go is an operator returning [err, val]:     *)
(* err is "" on success, "encode" for an encoder failure and "panic" for a  *)
(* failed type assertion or reflect call. A function with several steps is  *)
(* the composition of one operator per step, each handed the result so far. *)
(***************************************************************************)
marshalResourceObjectIdentifier(mri) ==
    [Type |-> Recv(mri).typ, ID |-> Recv(mri).id]

\* marshalMeta: the Encoder's buffer for GetMeta(), newline included.
marshalMeta(mm) ==
    IF Unencodable(mm.meta) THEN Fail("encode", Nil)
    ELSE Ok(Ptr(Raw(EncodeValue(mm.meta, FALSE), "\n")))

\* bytes.Equal(b, []byte("{}\n"))
IsEmptyObject(raw) == RawBytes(raw) = "{}\n"

\* A Go type assertion x.(MarshalResourceIdentifier): it panics when the
\* value does not have GetID and GetType.
IsIdentifier(v) == Has(v, "ident")

\* marshalRelationshipStruct: Data.One is set whatever the id is.
marshalRelationshipStruct(v) ==
    IF ~IsIdentifier(v) THEN Fail("panic", Nil)
    ELSE Ok(Ptr([Data |-> Ptr([One |-> Ptr(marshalResourceObjectIdentifier(v)),
                               Many |-> NilSlice])]))

\* marshalRelationshipSlice as it would be if each identifier were put in
\* front of those before it.
marshalRelationshipSliceReversed(v) ==
    IF \E i \in 1..Len(v.elems) : ~IsIdentifier(v.elems[i])
    THEN Fail("panic", Nil)
    ELSE Ok(Ptr([Data |-> Ptr([One |-> Nil,
            Many |-> MkSlice([i \in 1..Len(v.elems) |->
                        marshalResourceObjectIdentifier(
                            v.elems[Len(v.elems) + 1 - i])])])]))

\* marshalRelationshipSlice: Many starts as make([]..., 0), never nil, and
\* gets the identifier of each element in turn.
marshalRelationshipSlice(v) ==
    IF \E i \in 1..Len(v.elems) : ~IsIdentifier(v.elems[i])
    THEN Fail("panic", Nil)
    ELSE Ok(Ptr([Data |-> Ptr([One |-> Nil,
            Many |-> MkSlice([i \in 1..Len(v.elems) |->
                        marshalResourceObjectIdentifier(v.elems[i])])])]))

\* marshalRelationship as it would be if a slice of one element were taken
\* for the element.
marshalRelationshipCollapsing(v) ==
    CASE v.kind = "struct" -> marshalRelationshipStruct(v)
      [] v.kind = "slice" ->
           IF Len(v.elems) = 1 THEN marshalRelationshipStruct(v.elems[1])
           ELSE marshalRelationshipSlice(v)
      [] v.kind = "nil" -> Fail("panic", Nil)
      [] OTHER -> Ok(Nil)

\* marshalRelationship: the switch on the value's reflect.Kind; a kind that
\* is neither Struct nor Slice leaves the *relationship nil. reflect.TypeOf
\* of a nil interface is nil, and Kind() on it panics.
marshalRelationship(v) ==
    CASE v.kind = "struct" -> marshalRelationshipStruct(v)
      [] v.kind = "slice" -> marshalRelationshipSlice(v)
      [] v.kind = "nil" -> Fail("panic", Nil)
      [] OTHER -> Ok(Nil)

\* A map built entry by entry: it fails with e when an entry fails.
MapOf(each, e) ==
    IF \E n \in DOMAIN each : each[n].err # "" THEN Fail(e, NoRelationships)
    ELSE Ok([isNil |-> FALSE, names |-> DOMAIN each,
             at |-> [n \in DOMAIN each |-> each[n].val]])

\* marshalRelationships: one entry per key of GetRelationships().
marshalRelationships(mr) ==
    MapOf([n \in DOMAIN mr.rels |-> marshalRelationship(mr.rels[n])], "panic")

\* The first step of marshalResourceObject as it would be without the
\* comparison to "{}\n": the attributes are always set.
resourceAttributesAlways(mri) ==
    IF Unencodable(mri)
    THEN Fail("encode", marshalResourceObjectIdentifier(mri))
    ELSE Ok(marshalResourceObjectIdentifier(mri)
            @@ [Attributes |-> Ptr(Raw(EncodeValue(mri, FALSE), "\n")),
                Meta |-> Nil, Relationships |-> NoRelationships])

\* marshalResourceObject, first step: the identifier, and the attributes
\* unless the encoder wrote "{}\n".
resourceAttributes(mri) ==
    IF Unencodable(mri)
    THEN Fail("encode", marshalResourceObjectIdentifier(mri))
    ELSE Ok(marshalResourceObjectIdentifier(mri)
            @@ [Attributes |-> IF IsEmptyObject(Raw(EncodeValue(mri, FALSE), "\n"))
                               THEN Nil
                               ELSE Ptr(Raw(EncodeValue(mri, FALSE), "\n")),
                Meta |-> Nil, Relationships |-> NoRelationships])

\* The meta step of marshalResourceObject and of marshalDocument: Meta is
\* set unless marshalMeta failed or wrote "{}\n".
setMeta(x, meta) ==
    IF meta.err # "" THEN Fail(meta.err, x)
    ELSE IF IsEmptyObject(Deref(meta.val)) THEN Ok(x)
    ELSE Ok([x EXCEPT !.Meta = meta.val])

resourceMeta(mri, r) ==
    IF r.err # "" \/ ~Has(mri, "meta") THEN r ELSE setMeta(r.val, marshalMeta(mri))

setRelationships(one, rels) ==
    IF rels.err # "" THEN Fail(rels.err, one)
    ELSE Ok([one EXCEPT !.Relationships = rels.val])

resourceRelationships(mri, r) ==
    IF r.err # "" \/ ~Has(mri, "rels") THEN r
    ELSE setRelationships(r.val, marshalRelationships(mri))

\* marshalResourceObject: identifier and attributes, then meta, then
\* relationships.
marshalResourceObject(mri) ==
    resourceRelationships(Recv(mri),
        resourceMeta(Recv(mri), resourceAttributes(Recv(mri))))

\* The loop shared by marshalResourceObjects and marshalIncluded: each
\* element is asserted to be an identifier, encoded and appended; the first
\* failure ends the loop.
RECURSIVE marshalEach(_, _)
RECURSIVE appendEach(_, _, _)
marshalEach(s, acc) ==
    IF s = <<>> THEN Ok(acc)
    ELSE IF ~IsIdentifier(Head(s)) THEN Fail("panic", acc)
    ELSE appendEach(s, acc, marshalResourceObject(Head(s)))

appendEach(s, acc, one) ==
    IF one.err # "" THEN Fail(one.err, acc)
    ELSE marshalEach(Tail(s), Append1(acc, one.val))

\* marshalResourceObjects as it would be with many declared and not
\* initialised (var many []*ResourceObject).
marshalResourceObjectsFromNil(v) == marshalEach(v.elems, NilSlice)

\* The elements of s without those whose type and id an earlier element
\* has.
RECURSIVE FirstOfEach(_, _)
FirstOfEach(s, seen) ==
    IF s = <<>> THEN <<>>
    ELSE IF IsIdentifier(Head(s)) /\ marshalResourceObjectIdentifier(Head(s)) \in seen
    THEN FirstOfEach(Tail(s), seen)
    ELSE <<Head(s)>>
         \o FirstOfEach(Tail(s),
               IF IsIdentifier(Head(s))
               THEN seen \cup {marshalResourceObjectIdentifier(Head(s))} ELSE seen)

\* marshalIncluded as it would be if it kept one entry per type and id.
marshalIncludedOnce(mi) == marshalEach(FirstOfEach(mi.incl, {}), NilSlice)

\* marshalResourceObjects: many starts as []*ResourceObject{}, never nil.
marshalResourceObjects(v) == marshalEach(v.elems, MkSlice(<<>>))

\* marshalIncluded: included starts as a nil slice and gets one entry per
\* element of GetIncluded().
marshalIncluded(mi) == marshalEach(mi.incl, NilSlice)

\* The type switch of marshalDocument: the first case that matches wins.
DocumentCase(v) ==
    IF Has(v, "data") THEN "MarshalData"
    ELSE IF Has(v, "errors") THEN "MarshalErrors"
    ELSE "none"

dataOne(one) ==
    IF one.err # "" THEN Fail(one.err, Nil)
    ELSE Ok([EmptyDocument EXCEPT !.Data = Ptr([One |-> Ptr(one.val), Many |-> NilSlice])])

dataMany(many) ==
    IF many.err # "" THEN Fail(many.err, Nil)
    ELSE Ok([EmptyDocument EXCEPT !.Data = Ptr([One |-> Nil, Many |-> many.val])])

\* case MarshalData of marshalDocument: the switch on the kind of what
\* GetData returned.
marshalData(data) ==
    CASE data.kind = "nil" -> Fail("panic", Nil)
      [] data.kind = "struct" ->
           IF ~IsIdentifier(data) THEN Fail("panic", Nil)
           ELSE dataOne(marshalResourceObject(data))
      [] data.kind = "slice" -> dataMany(marshalResourceObjects(data))
      [] OTHER -> Ok([EmptyDocument EXCEPT !.Data = Ptr(EmptyDocumentData)])

withErrors(r, errs) ==
    IF r.err # "" THEN r ELSE Ok([r.val EXCEPT !.Errors = errs])

\* The first step of marshalDocument as it would be if the two cases were
\* two tests in a row: a payload with GetData and GetErrors gets both.
documentDataAndErrors(v) ==
    IF Has(v, "data") /\ Has(v, "errors")
    THEN withErrors(marshalData(GetData(v)), v.errs)
    ELSE IF Has(v, "data") THEN marshalData(GetData(v))
    ELSE IF Has(v, "errors") THEN Ok([EmptyDocument EXCEPT !.Errors = v.errs])
    ELSE Ok(EmptyDocument)

\* marshalDocument, first step: the type switch.
documentData(v) ==
    CASE DocumentCase(v) = "MarshalData" -> marshalData(GetData(v))
      [] DocumentCase(v) = "MarshalErrors" -> Ok([EmptyDocument EXCEPT !.Errors = v.errs])
      [] OTHER -> Ok(EmptyDocument)

setIncluded(d, included) ==
    IF included.err # "" THEN Fail(included.err, Nil)
    ELSE Ok([d EXCEPT !.Included = included.val])

\* The included step as it would be if, for a payload without GetIncluded,
\* the first element of a collection were asked for its GetIncluded.
documentIncludedOfElements(v, r) ==
    IF r.err # "" THEN r
    ELSE IF Has(v, "included") THEN setIncluded(r.val, marshalIncluded(v))
    ELSE IF /\ Has(v, "data")
            /\ GetData(v).kind = "slice"
            /\ GetData(v).elems # <<>>
            /\ Has(GetData(v).elems[1], "included")
    THEN setIncluded(r.val, marshalIncluded(Recv(GetData(v).elems[1])))
    ELSE r

documentIncluded(v, r) ==
    IF r.err # "" \/ ~Has(v, "included") THEN r
    ELSE setIncluded(r.val, marshalIncluded(v))

\* The meta step of marshalDocument as it would be if a payload without
\* GetMeta passed on the meta of the record its GetData returns.
documentMetaOfData(v, r) ==
    IF r.err # "" THEN r
    ELSE IF Has(v, "meta") THEN setMeta(r.val, marshalMeta(v))
    ELSE IF Has(v, "data") /\ GetData(v).kind = "struct" /\ Has(GetData(v), "meta")
    THEN setMeta(r.val, marshalMeta(GetData(v)))
    ELSE r

documentMeta(v, r) ==
    IF r.err # "" \/ ~Has(v, "meta") THEN r ELSE setMeta(r.val, marshalMeta(v))

\* marshalDocument: data or errors, then included, then meta.
marshalDocument(v) ==
    documentMeta(Recv(v), documentIncluded(Recv(v), documentData(Recv(v))))

encodeDocument(d) ==
    IF d.err # "" THEN [err |-> d.err, doc |-> Nil, bytes |-> Nil]
    ELSE [err |-> "", doc |-> Ptr(d.val),
          bytes |-> Ptr(Raw(EncDocument(d.val, FALSE), "\n"))]

\* Marshal as it would be if a pointer were not followed: no case of the
\* type switch is taken for it.
MarshalBytesOfValues(v) ==
    IF v.kind \in {"nil", "nilptr"} THEN [err |-> "panic", doc |-> Nil, bytes |-> Nil]
    ELSE IF v.kind = "ptr" THEN encodeDocument(Ok(EmptyDocument))
    ELSE encodeDocument(marshalDocument(v))

\* Marshal: one pointer is dereferenced (Elem of a nil pointer has no
\* Interface: a panic), the Document is assembled and written by an Encoder
\* with SetEscapeHTML(false); Encode ends its output with a newline.
MarshalBytes(v) ==
    IF v.kind \in {"nil", "nilptr"} THEN [err |-> "panic", doc |-> Nil, bytes |-> Nil]
    ELSE encodeDocument(marshalDocument(IF v.kind = "ptr" THEN v.elem ELSE v))

(***************************************************************************)
(* Decoding a document (json.Unmarshal into Document)                       *)
(***************************************************************************)
\* Bytes that are not JSON.
Malformed == [j |-> "bad"]

DecString(v) == HTMLUnescape(v.s)

\* A string member of a struct: absent or null leaves the zero value, a
\* value that is no string is a type error.
StringMemberOk(obj, k) ==
    ~HasMember(obj, k) \/ GetMember(obj, k).j \in {"str", "null"}

StringMember(obj, k) ==
    IF HasMember(obj, k) /\ GetMember(obj, k).j = "str"
    THEN DecString(GetMember(obj, k)) ELSE ""

DecIdentifier(obj) == [Type |-> StringMember(obj, "type"), ID |-> StringMember(obj, "id")]

IdentifierOk(v) ==
    v.j = "obj" /\ StringMemberOk(v, "type") /\ StringMemberOk(v, "id")

\* relationshipData.UnmarshalJSON: the first byte decides; anything that
\* starts with neither { nor [ is accepted and leaves both slots nil.
RelationshipDataUnmarshalJSON(v) ==
    CASE v.j = "obj" ->
           IF IdentifierOk(v)
           THEN Ok([One |-> Ptr(DecIdentifier(v)), Many |-> NilSlice])
           ELSE Fail("decode", EmptyRelationshipData)
      [] v.j = "arr" ->
           IF \A i \in 1..Len(v.e) : IdentifierOk(v.e[i])
           THEN Ok([One |-> Nil,
                    Many |-> MkSlice([i \in 1..Len(v.e) |-> DecIdentifier(v.e[i])])])
           ELSE Fail("decode", EmptyRelationshipData)
      [] OTHER -> Ok(EmptyRelationshipData)

relationshipOf(d) ==
    IF d.err # "" THEN Fail(d.err, Nil) ELSE Ok(Ptr([Data |-> Ptr(d.val)]))

\* A *relationship: null is a nil pointer; in an object, data that is
\* absent or null leaves Data nil.
DecRelationship(v) ==
    CASE v.j = "null" -> Ok(Nil)
      [] v.j = "obj" ->
           IF ~HasMember(v, "data") \/ GetMember(v, "data").j = "null"
           THEN Ok(Ptr([Data |-> Nil]))
           ELSE relationshipOf(RelationshipDataUnmarshalJSON(GetMember(v, "data")))
      [] OTHER -> Fail("decode", Nil)

DecRelationshipMap(v) ==
    CASE v.j = "null" -> Ok(NoRelationships)
      [] v.j = "obj" ->
           MapOf([n \in {v.m[i].k : i \in 1..Len(v.m)} |->
                     DecRelationship(GetMember(v, n))], "decode")
      [] OTHER -> Fail("decode", NoRelationships)

resourceOf(v, rels) ==
    IF rels.err # "" THEN Fail("decode", Nil)
    ELSE Ok([Type |-> StringMember(v, "type"), ID |-> StringMember(v, "id"),
             Attributes |-> IF HasMember(v, "attributes")
                            THEN Ptr(Raw(GetMember(v, "attributes"), "")) ELSE Nil,
             Meta |-> IF HasMember(v, "meta")
                      THEN Ptr(Raw(GetMember(v, "meta"), "")) ELSE Nil,
             Relationships |-> rels.val])

\* A ResourceObject: attributes and meta are kept as raw bytes.
DecResourceObject(v) ==
    IF v.j # "obj" THEN Fail("decode", Nil)
    ELSE IF ~IdentifierOk(v) THEN Fail("decode", Nil)
    ELSE resourceOf(v, IF HasMember(v, "relationships")
                       THEN DecRelationshipMap(GetMember(v, "relationships"))
                       ELSE Ok(NoRelationships))

\* A slice decoded element by element.
SliceOfEach(each) ==
    IF \E i \in 1..Len(each) : each[i].err # "" THEN Fail("decode", NilSlice)
    ELSE Ok(MkSlice([i \in 1..Len(each) |-> each[i].val]))

DecResourceObjects(v) ==
    SliceOfEach([i \in 1..Len(v.e) |-> DecResourceObject(v.e[i])])

oneOf(one) ==
    IF one.err # "" THEN Fail(one.err, EmptyDocumentData)
    ELSE Ok([One |-> Ptr(one.val), Many |-> NilSlice])

manyOf(many) ==
    IF many.err # "" THEN Fail(many.err, EmptyDocumentData)
    ELSE Ok([One |-> Nil, Many |-> many.val])

\* documentData.UnmarshalJSON: as for a relationship's data.
DocumentDataUnmarshalJSON(v) ==
    CASE v.j = "obj" -> oneOf(DecResourceObject(v))
      [] v.j = "arr" -> manyOf(DecResourceObjects(v))
      [] OTHER -> Ok(EmptyDocumentData)

DecErrorObject(v) ==
    [Title |-> StringMember(v, "title"), Code |-> StringMember(v, "code"),
     Source |-> [Pointer |-> IF HasMember(v, "source")
                             THEN StringMember(GetMember(v, "source"), "pointer")
                             ELSE ""]]

ErrorObjectOk(v) ==
    /\ v.j = "obj"
    /\ StringMemberOk(v, "title")
    /\ StringMemberOk(v, "code")
    /\ HasMember(v, "source") =>
          /\ GetMember(v, "source").j = "obj"
          /\ StringMemberOk(GetMember(v, "source"), "pointer")

DecErrors(v) ==
    CASE v.j = "null" -> Ok(NilSlice)
      [] v.j = "arr" ->
           IF \A i \in 1..Len(v.e) : ErrorObjectOk(v.e[i])
           THEN Ok(MkSlice([i \in 1..Len(v.e) |-> DecErrorObject(v.e[i])]))
           ELSE Fail("decode", NilSlice)
      [] OTHER -> Fail("decode", NilSlice)

DecIncluded(v) ==
    CASE v.j = "null" -> Ok(NilSlice)
      [] v.j = "arr" -> DecResourceObjects(v)
      [] OTHER -> Fail("decode", NilSlice)

\* One member of the Document: absent, it leaves the field alone; a failure
\* keeps the Document as decoded so far.
setMember(d, field, x) ==
    IF x.err # "" THEN Fail(x.err, d) ELSE Ok([d EXCEPT ![field] = x.val])

\* A pointer field: the value is decoded into a fresh one.
pointerTo(d) ==
    IF d.err # "" THEN Fail(d.err, Nil) ELSE Ok(Ptr(d.val))

decData(v) ==
    IF ~HasMember(v, "data") \/ GetMember(v, "data").j = "null" THEN Ok(EmptyDocument)
    ELSE setMember(EmptyDocument, "Data",
                   pointerTo(DocumentDataUnmarshalJSON(GetMember(v, "data"))))

decErrors(v, r) ==
    IF r.err # "" \/ ~HasMember(v, "errors") THEN r
    ELSE setMember(r.val, "Errors", DecErrors(GetMember(v, "errors")))

decIncluded(v, r) ==
    IF r.err # "" \/ ~HasMember(v, "included") THEN r
    ELSE setMember(r.val, "Included", DecIncluded(GetMember(v, "included")))

decMeta(v, r) ==
    IF r.err # "" \/ ~HasMember(v, "meta") THEN r
    ELSE Ok([r.val EXCEPT !.Meta = Ptr(Raw(GetMember(v, "meta"), ""))])

\* json.Unmarshal(data, doc): the members are decoded in turn; the call
\* fails on bytes that are not JSON, on a document that is no object and on
\* a member of the wrong shape. The Document keeps what was decoded before
\* the failure.
DecDocument(v) ==
    IF v.j = "bad" THEN Fail("syntax", EmptyDocument)
    ELSE IF v.j = "null" THEN Ok(EmptyDocument)
    ELSE IF v.j # "obj" THEN Fail("decode", EmptyDocument)
    ELSE decMeta(v, decIncluded(v, decErrors(v, decData(v))))

(***************************************************************************)
(* Unmarshal: projecting a Document onto a target                           *)
(*                                                                          *)
(* A target is the value behind the pointer Unmarshal is given. ucaps is    *)
(* the set of the methods of src/jsonapi.go it has: SetID, SetType,         *)
(* SetRelationships, SetData, SetErrors. reject is the set of those that    *)
(* return an error (and store nothing). A target with SetData has setData:  *)
(* "forward" calls to(inner) and returns its result, "ignore" returns nil   *)
(* without calling to; inner is the value handed to to, or Self when the    *)
(* target hands itself. A call is recorded as [m, a, on]: the method, its   *)
(* argument, and the element of the collection it was called on (0: the     *)
(* target itself). The steps of a function thread [t, calls, err]: the      *)
(* target so far, the calls so far, and the error that ended the function.  *)
(***************************************************************************)
Call(m, a, on) == [m |-> m, a |-> a, on |-> on]

St(t, cs, e) == [t |-> t, calls |-> cs, err |-> e]

\* target.(UnmarshalResourceIdentifier): both SetID and SetType are needed.
IsUnmarshalIdentifier(t) ==
    t.kind = "struct" /\ {"SetID", "SetType"} \subseteq t.ucaps

\* A user's setter: it stores its argument in the field named field unless
\* it rejects it.
Setter(st, m, field, a, on) ==
    IF m \in st.t.reject
    THEN St(st.t, Append(st.calls, Call(m, a, on)), m)
    ELSE St([st.t EXCEPT ![field] = a], Append(st.calls, Call(m, a, on)), "")

\* json.Unmarshal(ro.Attributes, ui): null changes nothing; an object sets
\* the fields it names (never one tagged "-"); a string for an int field or
\* a number for a string field leaves the field alone and makes the call
\* fail after the other fields are set; anything but an object or null fails.
FieldMatches(f, v) ==
    \/ f.kind = "string" /\ v.j = "str"
    \/ f.kind = "int" /\ v.j = "int"
    \/ v.j = "null"

DecField(f, obj) ==
    IF f.tag = "-" \/ ~HasMember(obj, f.name) THEN f
    ELSE CASE f.kind = "string" /\ GetMember(obj, f.name).j = "str" ->
                [f EXCEPT !.value = DecString(GetMember(obj, f.name))]
           [] f.kind = "int" /\ GetMember(obj, f.name).j = "int" ->
                [f EXCEPT !.value = GetMember(obj, f.name).n]
           [] OTHER -> f

DecAttributes(v, st) ==
    CASE v.j = "null" -> st
      [] v.j = "obj" ->
           St([st.t EXCEPT !.fields = [i \in 1..Len(st.t.fields) |->
                                          DecField(st.t.fields[i], v)]],
              st.calls,
              IF \A i \in 1..Len(st.t.fields) :
                    (st.t.fields[i].tag # "-" /\ HasMember(v, st.t.fields[i].name))
                       => FieldMatches(st.t.fields[i], GetMember(v, st.t.fields[i].name))
              THEN "" ELSE "decode")
      [] OTHER -> St(st.t, st.calls, "decode")

\* What SetRelationships is given for one name: a *ResourceObjectIdentifier
\* or a []*ResourceObjectIdentifier.
One(roi) == [shape |-> "one", id |-> roi]

Many(rois) == [shape |-> "many", ids |-> rois]

\* The entry of one name: Many is looked at after One and overwrites it.
Entry(data) ==
    IF ~data.Many.isNil THEN Many(data.Many.elems) ELSE One(Deref(data.One))

\* HasEntry as it would be if an empty list counted as no data.
HasEntryNotEmpty(r) ==
    /\ Deref(r).Data # Nil
    /\ \/ Deref(Deref(r).Data).One # Nil
       \/ Deref(Deref(r).Data).Many.elems # <<>>

HasEntry(r) ==
    /\ Deref(r).Data # Nil
    /\ \/ Deref(Deref(r).Data).One # Nil
       \/ ~Deref(Deref(r).Data).Many.isNil

\* unmarshalRelationships: an entry for each name whose data holds One or
\* Many, and one call of SetRelationships with the map; v.Data of a nil
\* *relationship is a nil dereference.
unmarshalRelationships(rs, st, on) ==
    IF \E k \in rs.names : rs.at[k] = Nil THEN St(st.t, st.calls, "panic")
    ELSE Setter(st, "SetRelationships", "rels",
                [k \in {n \in rs.names : HasEntry(rs.at[n])} |->
                    Entry(Deref(Deref(rs.at[k]).Data))], on)

\* unmarshalResourceObject, step by step: attributes when there are any,
\* SetID, SetType, SetRelationships when the target has it; a step is
\* skipped once one has failed.
attributesStep(ro, st) ==
    IF Len(ro.Attributes) > 0 THEN DecAttributes(Deref(ro.Attributes).body, st) ELSE st

\* The attributes step when it is not the first.
afterID(ro, st) == IF st.err # "" THEN st ELSE attributesStep(ro, st)

idStep(ro, st, on) ==
    IF st.err # "" THEN st ELSE Setter(st, "SetID", "id", ro.ID, on)

typeStep(ro, st, on) ==
    IF st.err # "" THEN st ELSE Setter(st, "SetType", "typ", ro.Type, on)

relationshipsStep(ro, st, on) ==
    IF st.err # "" \/ "SetRelationships" \notin st.t.ucaps THEN st
    ELSE unmarshalRelationships(ro.Relationships, st, on)

\* unmarshalResourceObject as it would be with SetID before the
\* attributes.
unmarshalResourceObjectIDFirst(ro, st, on) ==
    relationshipsStep(ro,
        typeStep(ro, afterID(ro, idStep(ro, st, on)), on), on)

unmarshalResourceObject(ro, st, on) ==
    relationshipsStep(ro, typeStep(ro, idStep(ro, attributesStep(ro, st), on), on), on)

\* unmarshalOne: the assertion target.(UnmarshalResourceIdentifier) panics
\* on a target without SetID and SetType.
unmarshalOne(one, st) ==
    IF ~IsUnmarshalIdentifier(st.t) THEN St(st.t, st.calls, "panic")
    ELSE unmarshalResourceObject(one, st, 0)

\* unmarshalMany: a fresh element per resource (reflect.New of the element
\* type), projected and appended to a copy of the slice; the slice is set
\* after the loop, and a failure returns before that. A target that is no
\* pointer to a slice makes reflect panic.
RECURSIVE unmarshalEach(_, _, _, _)
RECURSIVE appendNew(_, _, _, _, _)
unmarshalEach(many, k, st, val) ==
    IF k > Len(many) THEN St([st.t EXCEPT !.isNil = FALSE, !.elems = val], st.calls, "")
    ELSE IF ~IsUnmarshalIdentifier(st.t.zero) THEN St(st.t, st.calls, "panic")
    ELSE appendNew(many, k, st, val,
                   unmarshalResourceObject(many[k], St(st.t.zero, st.calls, ""), k))

\* appendNew as it would be if a failure stored the elements projected so
\* far in the target.
appendNewKeeping(many, k, st, val, new) ==
    IF new.err # ""
    THEN St([st.t EXCEPT !.isNil = FALSE, !.elems = val], new.calls, new.err)
    ELSE unmarshalEach(many, k + 1, St(st.t, new.calls, ""), Append(val, new.t))

appendNew(many, k, st, val, new) ==
    IF new.err # "" THEN St(st.t, new.calls, new.err)
    ELSE unmarshalEach(many, k + 1, St(st.t, new.calls, ""), Append(val, new.t))

\* unmarshalMany as it would be if val started as an empty slice and not
\* as the target's.
unmarshalManyFromEmpty(many, st) ==
    IF st.t.kind # "slice" THEN St(st.t, st.calls, "panic")
    ELSE IF many = <<>> THEN st
    ELSE unmarshalEach(many, 1, st, <<>>)

unmarshalMany(many, st) ==
    IF st.t.kind # "slice" THEN St(st.t, st.calls, "panic")
    ELSE IF many = <<>> THEN st
    ELSE unmarshalEach(many, 1, st, st.t.elems)

\* The closure Unmarshal hands to SetData.
to(shape, x, st) ==
    IF shape = "one" THEN unmarshalOne(x, st) ELSE unmarshalMany(x, st)

\* What the target's SetData hands to the closure, and the target once the
\* closure has returned.
Handed(t) == IF t.inner.kind = "self" THEN t ELSE t.inner

HandBack(t, r) ==
    IF t.inner.kind = "self" THEN r ELSE St([t EXCEPT !.inner = r.t], r.calls, r.err)

\* asserted.SetData(to): the user's method.
SetData(st, shape, x) ==
    IF "SetData" \in st.t.reject
    THEN St(st.t, Append(st.calls, Call("SetData", shape, 0)), "SetData")
    ELSE IF st.t.setData = "ignore"
    THEN St(st.t, Append(st.calls, Call("SetData", shape, 0)), "")
    ELSE HandBack(st.t, to(shape, x, St(Handed(st.t),
                                       Append(st.calls, Call("SetData", shape, 0)), "")))

\* The data branch of Unmarshal: for a target with SetData and a Document
\* with Data, One when it is there, then Many when it is there.
oneBranch(data, st) ==
    IF data.One = Nil THEN st ELSE SetData(st, "one", Deref(data.One))

\* manyBranch as it would be without the test of Many against nil.
manyBranchAnyway(data, st) ==
    IF st.err # "" THEN st ELSE SetData(st, "many", data.Many.elems)

manyBranch(data, st) ==
    IF st.err # "" \/ data.Many.isNil THEN st ELSE SetData(st, "many", data.Many.elems)

dataBranch(d, st) ==
    IF "SetData" \in st.t.ucaps /\ d.Data # Nil
    THEN manyBranch(Deref(d.Data), oneBranch(Deref(d.Data), st))
    ELSE st

\* The result of SetErrors as it would be if Unmarshal returned it.
keepError(st) == st

\* SetErrors is called and what it returns is dropped.
dropError(st) == St(st.t, st.calls, "")

\* The errors branch of Unmarshal, reached unless the data branch returned
\* an error.
errorsBranch(d, st) ==
    IF st.err # "" THEN st
    ELSE IF "SetErrors" \in st.t.ucaps /\ ~d.Errors.isNil
    THEN dropError(Setter(st, "SetErrors", "errs", d.Errors, 0))
    ELSE st

Project(d, t) == errorsBranch(d, dataBranch(d, St(t, <<>>, "")))

\* The result of Unmarshal as it would be if a failure returned no Document.
unmarshalResultOrNil(d, st) ==
    [err |-> st.err, doc |-> IF st.err # "" THEN Nil ELSE Ptr(d),
     t |-> st.t, calls |-> st.calls]

unmarshalResult(d, st) ==
    [err |-> st.err, doc |-> Ptr(d), t |-> st.t, calls |-> st.calls]

decoded(d, t) ==
    IF d.err # "" THEN unmarshalResult(d.val, St(t, <<>>, d.err))
    ELSE unmarshalResult(d.val, Project(d.val, t))

\* Unmarshal(data, target): the Document, the error, the target as the call
\* leaves it, and the calls made on it.
UnmarshalBytes(w, t) == decoded(DecDocument(w.body), t)

(***************************************************************************)
(* The values Marshal is called with                                        *)
(***************************************************************************)
SeqsUpTo(S, n) == UNION {[1..k -> S] : k \in 0..n}

IDs == {"", "1", "2"}

Titles == {"", "T", "Q&A"}

Self == [kind |-> "self"]

NilValue == [kind |-> "nil"]

NilPtr == [kind |-> "nilptr"]

PtrTo(v) == [kind |-> "ptr", elem |-> v]

\* A struct without methods, such as a meta value.
Plain(fields) == [kind |-> "struct", caps |-> {}, fields |-> fields]

\* A record type with GetID and GetType.
Resource(typ, id, fields) ==
    [kind |-> "struct", caps |-> {"ident"}, typ |-> typ, id |-> id,
     fields |-> fields]

With(v, cap, field) == [v EXCEPT !.caps = @ \cup {cap}] @@ field

Book(id, title) == Resource("books", id, <<Field("title", "string", title, "")>>)

Author(id) == Resource("authors", id, <<Field("name", "string", "N", "")>>)

Reader(id) == Resource("people", id, <<Field("name", "string", "N", "")>>)

\* A record whose fields are all tagged out or empty with omitempty.
Order(id) ==
    Resource("orders", id, <<Field("note", "string", "", "omitempty"),
                             Field("secret", "string", "x", "-")>>)

\* A record with a field encoding/json cannot encode.
Broken(id) == Resource("books", id, <<Field("ch", "chan", "", "")>>)

GoSlice(elems) == [kind |-> "slice", caps |-> {}, isNil |-> FALSE, elems |-> elems]

GoNilSlice == [kind |-> "slice", caps |-> {}, isNil |-> TRUE, elems |-> <<>>]

Metas ==
    { Plain(<<Field("sold", "int", n, "omitempty")>>) : n \in {0, 5} }
    \cup { Plain(<<Field("count", "int", 0, "")>>), NilValue,
           Plain(<<Field("ch", "chan", "", "")>>) }

ToOneValues ==
    { Author(id) : id \in IDs \cup {"<3>"} }
    \cup { PtrTo(Author("1")), Plain(<<>>), NilValue }

ToManyValues ==
    { GoSlice(s) : s \in SeqsUpTo({Reader("1"), Reader("2")}, MaxElems) }
    \cup { GoNilSlice, GoSlice(<<Plain(<<>>)>>) }

RelMaps ==
    { [author |-> v] : v \in ToOneValues }
    \cup { [readers |-> v] : v \in ToManyValues }
    \cup { [book |-> Book(b, "T"), reader |-> Reader(r)] : b \in IDs, r \in IDs }
    \cup { [author |-> Author("1"), readers |-> v] : v \in ToManyValues }
    \cup { <<>> }

Resources ==
    { Book(id, t) : id \in IDs, t \in Titles }
    \cup { With(Book("1", t), "rels", [rels |-> m]) : t \in {"T"}, m \in RelMaps }
    \cup { With(Order("1"), "rels", [rels |-> m]) : m \in RelMaps }
    \cup { With(b, "meta", [meta |-> m]) : b \in {Book("1", "T"), Order("2")}, m \in Metas }
    \cup { Order(id) : id \in IDs }
    \cup { Author(id) : id \in IDs }
    \cup { Broken("1") }

ErrorObject(title, code, pointer) ==
    [Title |-> title, Code |-> code, Source |-> [Pointer |-> pointer]]

ErrorObjects ==
    { ErrorObject("is required", "", "/data/attributes/title"),
      ErrorObject("is invalid", "42", "") }

ErrorLists == { MkSlice(s) : s \in SeqsUpTo(ErrorObjects, MaxElems) } \cup { NilSlice }

\* A view: a struct without attributes whose GetData returns data.
View(data) == With(Plain(<<>>), "data", [data |-> data])

\* Elements a collection or an included list is drawn from.
Elements ==
    { Book("1", "T"), Book("2", "Q&A"), Author("1"),
      With(Book("1", "T"), "rels", [rels |-> [author |-> Author("1")]]) }

Collections ==
    { GoSlice(s) : s \in SeqsUpTo(Elements, MaxElems) }
    \cup { GoNilSlice, GoSlice(<<Broken("1")>>), GoSlice(<<Plain(<<>>)>>),
           GoSlice(<<PtrTo(Book("1", "T")), Book("2", "T")>>) }

IncludedLists ==
    SeqsUpTo({Author("1"), Author("2"), With(Order("1"), "meta",
                [meta |-> Plain(<<Field("count", "int", 0, "")>>)])}, MaxElems)
    \cup { <<PtrTo(Author("1"))>>, <<Plain(<<>>)>>, <<Broken("1")>> }

\* A view with some of GetIncluded, GetMeta and GetErrors besides GetData.
Wrappers(data) ==
    { With(View(data), "included", [incl |-> i]) : i \in IncludedLists }
    \cup { With(View(data), "meta", [meta |-> m]) : m \in Metas }
    \cup { With(View(data), "errors", [errs |-> e]) : e \in ErrorLists }
    \cup { With(With(View(data), "included", [incl |-> i]), "meta", [meta |-> m]) :
             i \in {<<Author("1")>>}, m \in Metas }

\* Collections whose first element has GetIncluded itself, in a view with
\* and without GetIncluded.
Nested ==
    { View(GoSlice(<<With(Book("1", "T"), "included", [incl |-> <<Author("2")>>])>> \o s)) :
        s \in {<<>>, <<Book("2", "T")>>} }
    \cup { With(View(GoSlice(<<With(Book("1", "T"), "included",
                                    [incl |-> <<Author("2")>>])>>)),
                 "included", [incl |-> <<Author("1")>>]) }

Payloads ==
    Resources
    \cup { With(r, "data", [data |-> Self]) : r \in Resources }
    \cup { View(r) : r \in Resources }
    \cup { View(c) : c \in Collections }
    \cup { View(NilValue), View(Plain(<<>>)), View(PtrTo(Book("1", "T"))) }
    \cup UNION { Wrappers(d) : d \in {Book("1", "T"), With(Book("1", "T"), "meta",
                   [meta |-> Plain(<<Field("sold", "int", 5, "omitempty")>>)]),
                   GoSlice(<<Book("1", "T"), Book("2", "T")>>), GoSlice(<<>>)} }
    \cup { With(c, "data", [data |-> Self]) : c \in Collections }
    \cup Collections
    \cup { With(Plain(<<>>), "errors", [errs |-> e]) : e \in ErrorLists }
    \cup { With(With(Book("1", "T"), "data", [data |-> Self]), "included", [incl |-> i]) :
             i \in IncludedLists }
    \cup Nested
    \cup { NilValue, NilPtr }

PointerPayloads ==
    { PtrTo(p) : p \in { q \in Payloads : q.kind \in {"struct", "slice"} } }

(***************************************************************************)
(* The targets and the documents Unmarshal is called with                   *)
(***************************************************************************)
NoRels == <<>>

\* A record type with the setters in ucaps.
Leaf(ucaps, id, fields, reject) ==
    [kind |-> "struct", ucaps |-> ucaps, reject |-> reject, id |-> id, typ |-> "",
     fields |-> fields, rels |-> NoRels, errs |-> NilSlice]

\* A view: SetData hands inner to the projector (or ignores it).
Wrapper(ucaps, setData, inner, reject) ==
    [kind |-> "struct", ucaps |-> ucaps \cup {"SetData"}, reject |-> reject,
     setData |-> setData, inner |-> inner, errs |-> NilSlice]

\* A record type whose SetData hands over the record itself.
SelfData(leaf) ==
    [leaf EXCEPT !.ucaps = @ \cup {"SetData"}] @@ [setData |-> "forward", inner |-> Self]

\* A slice type; zero is the zero value of its element type.
SliceOf(zero, elems) ==
    [kind |-> "slice", ucaps |-> {}, reject |-> {}, isNil |-> elems = <<>>,
     elems |-> elems, zero |-> zero]

TargetFields ==
    { <<Field("title", "string", "", "")>>,
      <<Field("title", "string", "old", ""), Field("sold", "int", 0, ""),
        Field("secret", "string", "x", "-")>> }

IdentifierCaps ==
    { {"SetID", "SetType"}, {"SetID", "SetType", "SetRelationships"}, {"SetID"} }

Leaves ==
    { Leaf(c, id, f, {}) : c \in IdentifierCaps, id \in {"", "9"}, f \in TargetFields }
    \cup { Leaf({"SetID", "SetType", "SetRelationships"}, "", <<Field("title", "string", "", "")>>, {m}) :
             m \in {"SetID", "SetType", "SetRelationships"} }

BookZero == Leaf({"SetID", "SetType", "SetRelationships"}, "", <<Field("title", "string", "", "")>>, {})

Slices ==
    { SliceOf(BookZero, <<>>), SliceOf(BookZero, <<[BookZero EXCEPT !.id = "0"]>>),
      SliceOf([BookZero EXCEPT !.reject = {"SetID"}], <<>>),
      SliceOf([BookZero EXCEPT !.ucaps = {"SetID"}], <<>>) }

Targets ==
    Leaves
    \cup { SelfData(l) : l \in Leaves }
    \cup { Wrapper({}, "forward", l, {}) : l \in Leaves }
    \cup { Wrapper({}, "forward", sl, {}) : sl \in Slices }
    \cup { Wrapper({"SetErrors"}, sd, BookZero, r) :
             sd \in {"forward", "ignore"}, r \in {{}, {"SetErrors"}, {"SetData"}} }
    \cup { Wrapper({"SetErrors"}, "forward", SliceOf(BookZero, <<>>), {}) }
    \cup { [l EXCEPT !.ucaps = @ \cup {"SetErrors"}] : l \in {BookZero} }

\* Documents as they arrive.
JIdentifier(typ, id) == JObj(<<Member("type", JStr(typ)), Member("id", JStr(id))>>)

JRelationships ==
    { JObj(<<Member("author", JObj(<<Member("data", d)>>))>>) :
        d \in { JIdentifier("authors", "1"), JNull, JArr(<<>>), JStr("x"),
                JArr(<<JIdentifier("people", "2"), JIdentifier("people", "1")>>) } }
    \cup { JObj(<<Member("author", JNull)>>), JObj(<<Member("author", JObj(<<>>))>>),
           JObj(<<>>),
           JObj(<<Member("author", JObj(<<Member("data", JIdentifier("authors", "1"))>>)),
                  Member("readers", JObj(<<Member("data",
                     JArr(<<JIdentifier("people", "1")>>))>>))>>) }

JAttributes ==
    { JObj(<<Member("title", JStr("T"))>>), JObj(<<>>), JNull,
      JObj(<<Member("title", JInt(5)), Member("sold", JInt(3))>>),
      JObj(<<Member("title", JStr("Q\\u0026A")), Member("secret", JStr("y"))>>) }

JResource(id, attrs, rels) ==
    JObj(<<Member("type", JStr("books"))>> \o id \o attrs \o rels)

JResources ==
    { JResource(id, <<Member("attributes", a)>>, <<>>) :
        id \in {<<>>, <<Member("id", JStr("1"))>>}, a \in JAttributes }
    \cup { JResource(<<Member("id", JStr("1"))>>, <<>>, <<Member("relationships", r)>>) :
             r \in JRelationships }
    \cup { JResource(<<Member("id", JStr("2"))>>, <<>>, <<>>),
           JResource(<<Member("id", JInt(7))>>, <<>>, <<>>) }

JListElements ==
    { JResource(<<Member("id", JStr("1"))>>, <<Member("attributes", JObj(<<Member("title", JStr("T"))>>))>>, <<>>),
      JResource(<<Member("id", JStr("2"))>>, <<Member("attributes", JObj(<<Member("title", JInt(5))>>))>>, <<>>),
      JResource(<<Member("id", JStr("3"))>>, <<>>,
                <<Member("relationships", JObj(<<Member("author",
                    JObj(<<Member("data", JIdentifier("authors", "1"))>>))>>))>>) }

JErrorLists ==
    { JArr(<<>>), JNull,
      JArr(<<JObj(<<Member("title", JStr("is required")),
                    Member("source", JObj(<<Member("pointer", JStr("/data/attributes/title"))>>))>>),
             JObj(<<Member("title", JStr("is invalid")), Member("code", JStr("42")),
                    Member("source", JObj(<<>>))>>)>>) }

JDatas ==
    JResources
    \cup { JArr(s) : s \in SeqsUpTo(JListElements, MaxElems) }
    \cup { JNull, JStr("x"), JInt(1) }

Documents ==
    { JObj(<<Member("data", d)>>) : d \in JDatas }
    \cup { JObj(<<Member("errors", e)>>) : e \in JErrorLists }
    \cup { JObj(<<Member("data", d), Member("errors", e)>>) :
             d \in { JResource(<<Member("id", JStr("2"))>>, <<>>, <<>>), JArr(<<>>),
                     JArr(<<JResource(<<Member("id", JStr("2"))>>, <<>>, <<>>)>>) },
             e \in JErrorLists }
    \cup { JObj(<<>>), JNull, JArr(<<>>), Malformed,
           JObj(<<Member("errors", JStr("x"))>>),
           JObj(<<Member("meta", JObj(<<Member("count", JInt(1))>>))>>) }

\* The target a caller declares to read a record or view back: the same
\* fields, empty, and the setters that mirror the getters.
ZeroField(f) == [f EXCEPT !.value = IF f.kind = "int" THEN 0 ELSE ""]

FreshLeaf(r) ==
    Leaf({"SetID", "SetType"}
           \cup (IF Has(r, "rels") THEN {"SetRelationships"} ELSE {}),
         "", [i \in 1..Len(r.fields) |-> ZeroField(r.fields[i])], {})

FreshTarget(p) ==
    IF Has(p, "ident")
    THEN IF Has(p, "data") THEN SelfData(FreshLeaf(p)) ELSE FreshLeaf(p)
    ELSE Wrapper({}, "forward", FreshLeaf(p.data), {})

\* The payloads that are one record, or a view of one record.
IsRecordPayload(p) ==
    /\ p.kind = "struct"
    /\ IF Has(p, "ident") THEN Has(p, "data") => p.data.kind = "self"
       ELSE /\ Has(p, "data")
            /\ p.data.kind = "struct"
            /\ Has(p.data, "ident")

(***************************************************************************)
(* The state machine: one call at a time                                    *)
(***************************************************************************)
Init ==
    /\ op = "init"
    /\ payload = NilValue
    /\ doc = Nil
    /\ out = Nil
    /\ merr = ""
    /\ wire = Nil
    /\ target0 = NilValue
    /\ target = NilValue
    /\ udoc = Nil
    /\ uerr = ""
    /\ calls = <<>>

Returned(r) ==
    /\ doc' = r.doc
    /\ out' = r.bytes
    /\ merr' = r.err

\* One call Marshal(p): the caller gets the bytes or the error.
Marshal(p) ==
    /\ op = "init"
    /\ op' = "marshal"
    /\ payload' = p
    /\ Returned(MarshalBytes(p))
    /\ UNCHANGED <<wire, target0, target, udoc, uerr, calls>>

Projected(r) ==
    /\ target' = r.t
    /\ udoc' = r.doc
    /\ uerr' = r.err
    /\ calls' = r.calls

\* One call Unmarshal(w, t) on bytes holding the document w.
Unmarshal(w, t) ==
    /\ op = "init"
    /\ op' = "unmarshal"
    /\ wire' = Ptr(Raw(w, ""))
    /\ target0' = t
    /\ Projected(UnmarshalBytes(Raw(w, ""), t))
    /\ UNCHANGED <<payload, doc, out, merr>>

\* The bytes Marshal returned for a record are given to Unmarshal with a
\* fresh target of the record's kind.
RoundTrip ==
    /\ op = "marshal"
    /\ merr = ""
    /\ IsRecordPayload(payload)
    /\ op' = "roundtrip"
    /\ wire' = out
    /\ target0' = FreshTarget(payload)
    /\ Projected(UnmarshalBytes(Deref(out), FreshTarget(payload)))
    /\ UNCHANGED <<payload, doc, out, merr>>

\* The call has returned and its results are dropped: no state outlives a
\* call.
Return ==
    /\ op # "init"
    /\ op' = "init"
    /\ payload' = NilValue
    /\ doc' = Nil
    /\ out' = Nil
    /\ merr' = ""
    /\ wire' = Nil
    /\ target0' = NilValue
    /\ target' = NilValue
    /\ udoc' = Nil
    /\ uerr' = ""
    /\ calls' = <<>>

Next ==
    \/ \E p \in Payloads \cup PointerPayloads : Marshal(p)
    \/ \E w \in Documents, t \in Targets : Unmarshal(w, t)
    \/ RoundTrip
    \/ Return

Spec == Init /\ [][Next]_vars

(***************************************************************************)
(* What a call of Marshal leaves: readings of the state                     *)
(***************************************************************************)
\* The document in the bytes Marshal returned.
Body == Deref(out).body

\* Marshal returned bytes for the payload of this state.
Marshalled == out # Nil

\* The payload's GetData() returns one record.
HasDataRecord(p) ==
    /\ Has(p, "data")
    /\ GetData(Recv(p)).kind = "struct"
    /\ Has(GetData(Recv(p)), "ident")

DataRecord(p) == GetData(Recv(p))

\* The payload's GetData() returns a slice.
HasDataSlice(p) == Has(p, "data") /\ GetData(Recv(p)).kind = "slice"

\* The resource object of a record as JSON:API has it: type, id when there
\* is one, attributes when a field is written.
ExpectedResource(v) ==
    JObj(<<Member("type", JStr(v.typ))>>
         \o (IF v.id # "" THEN <<Member("id", JStr(v.id))>> ELSE <<>>)
         \o (IF EncFields(v.fields, FALSE) # <<>>
             THEN <<Member("attributes", JObj(EncFields(v.fields, FALSE)))>>
             ELSE <<>>))

IsKey(m, keys) == m.k \in keys

\* The members of an object with a key of keys, in their order.
Only(obj, keys) == JObj(SelectSeq(obj.m, LAMBDA m : IsKey(m, keys)))

\* The resource objects of a document in the order they are written: data
\* (one, or each of many), then included.
DataOf(body) ==
    IF ~HasMember(body, "data") THEN <<>>
    ELSE IF GetMember(body, "data").j = "obj" THEN <<GetMember(body, "data")>>
    ELSE IF GetMember(body, "data").j = "arr" THEN GetMember(body, "data").e
    ELSE <<>>

IncludedOf(body) ==
    IF HasMember(body, "included") THEN GetMember(body, "included").e ELSE <<>>

\* The Go values those resource objects were made from, in the same order.
DataSources(p) ==
    IF HasDataRecord(p) THEN <<DataRecord(p)>>
    ELSE IF HasDataSlice(p) THEN GetData(Recv(p)).elems
    ELSE <<>>

IncludedSources(p) == IF Has(p, "included") THEN Recv(p).incl ELSE <<>>

\* The relationships member of the top-level resource, and one entry of it.
HasRel(body, n) ==
    /\ HasMember(body, "data")
    /\ GetMember(body, "data").j = "obj"
    /\ HasMember(GetMember(body, "data"), "relationships")
    /\ HasMember(GetMember(GetMember(body, "data"), "relationships"), n)

Rel(body, n) == GetMember(GetMember(GetMember(body, "data"), "relationships"), n)

\* The type and id of a resource object, and of the value it was made from.
KeyOfObject(r) ==
    <<GetMember(r, "type").s, IF HasMember(r, "id") THEN GetMember(r, "id").s ELSE "">>

KeyOfValue(v) == <<Recv(v).typ, Recv(v).id>>

(***************************************************************************)
(* C1                                                                       *)
(***************************************************************************)
\* The record of TestMarshalWithRelationships: a book with a to-one author.
BookWithAuthor == With(Book("1", "T"), "rels", [rels |-> [author |-> Author("1")]])

BookWithAuthorBytes ==
    "{\"data\":{\"type\":\"books\",\"id\":\"1\",\"attributes\":{\"title\":\"T\"},"
    \o "\"relationships\":{\"author\":{\"data\":{\"type\":\"authors\",\"id\":\"1\"}}}}}"

\* C1: Marshal of the record with id "1", type "books", the attribute title
\* and the to-one relationship author to (authors, 1) returns exactly the
\* bytes of the document with data holding type, id, attributes and
\* relationships in that order, and no byte before or after.
C1_BookWithAuthorExactBytes ==
    (op = "marshal" /\ payload = BookWithAuthor) =>
        /\ merr = ""
        /\ RawBytes(Deref(out)) = BookWithAuthorBytes

(***************************************************************************)
(* C2                                                                       *)
(***************************************************************************)
\* A value with GetID and GetType and no other method of the library.
IsBareIdentifiable(p) ==
    p.kind = "struct" /\ p.caps = {"ident"} /\ ~Unencodable(p)

\* C2: Marshal of a value that has only GetID and GetType (no GetData)
\* succeeds, and the data member of the document is the value's minimal
\* resource object: its type, its id and its attributes.
C2_BareIdentifiableHasData ==
    (op = "marshal" /\ IsBareIdentifiable(payload)) =>
        /\ merr = ""
        /\ HasMember(Body, "data")
        /\ GetMember(Body, "data") = ExpectedResource(payload)

(***************************************************************************)
(* C3                                                                       *)
(***************************************************************************)
\* The target holds the value of each field the record writes.
SameAttributes(x, t) ==
    \A i \in 1..Len(x.fields) :
        x.fields[i].tag # "-" => t.fields[i].value = x.fields[i].value

\* The target was given the identifiers of the relationship value v under
\* the name n: one exactly, many as the same set.
SameRelationship(v, n, t) ==
    /\ n \in DOMAIN t.rels
    /\ v.kind = "struct" =>
          t.rels[n] = One(marshalResourceObjectIdentifier(v))
    /\ v.kind = "slice" =>
          /\ t.rels[n].shape = "many"
          /\ {t.rels[n].ids[i] : i \in 1..Len(t.rels[n].ids)}
                = {marshalResourceObjectIdentifier(v.elems[i]) : i \in 1..Len(v.elems)}

\* C3: round trip. For a record x with GetID and GetType, and possibly
\* GetRelationships, Unmarshal of the bytes of Marshal(x) into a fresh
\* target of the same kind succeeds and leaves in the target x's id, x's
\* attributes field by field and x's relationship identifiers.
C3_RoundTripReproducesRecord ==
    (/\ op = "roundtrip"
     /\ payload.kind = "struct"
     /\ "ident" \in payload.caps
     /\ payload.caps \subseteq {"ident", "rels"}) =>
        /\ uerr = ""
        /\ target.id = payload.id
        /\ SameAttributes(payload, target)
        /\ Has(payload, "rels") =>
              \A n \in DOMAIN payload.rels :
                  SameRelationship(payload.rels[n], n, target)

(***************************************************************************)
(* C4                                                                       *)
(***************************************************************************)
\* a is the array of the identifiers of elems, one each, in their order.
IsIdentifierArray(elems, a) ==
    /\ a.j = "arr"
    /\ Len(a.e) = Len(elems)
    /\ \A i \in 1..Len(elems) : a.e[i] = JIdentifier(elems[i].typ, elems[i].id)

\* d is the one identifier object of the record v.
IsIdentifierObject(v, d) ==
    /\ d.j = "obj"
    /\ HasMember(d, "type")
    /\ GetMember(d, "type") = JStr(v.typ)
    /\ HasMember(d, "id")

\* The data of the relationship n has the shape of the value v.
RelationshipShape(v, n, body) ==
    /\ (v.kind = "struct" /\ v.id # "") =>
          /\ HasRel(body, n)
          /\ Rel(body, n).j = "obj"
          /\ HasMember(Rel(body, n), "data")
          /\ IsIdentifierObject(v, GetMember(Rel(body, n), "data"))
    /\ v.kind = "slice" =>
          /\ HasRel(body, n)
          /\ Rel(body, n).j = "obj"
          /\ HasMember(Rel(body, n), "data")
          /\ IsIdentifierArray(v.elems, GetMember(Rel(body, n), "data"))

\* C4: the shape of a relationship's data follows the shape of the value
\* GetRelationships returned for it: a record with an id gives one object
\* {type, id}; a slice of any length gives an array of as many identifiers,
\* [] for length 0 (never null), and an array for length 1 (never the one
\* object).
C4_RelationshipDataShape ==
    (/\ Marshalled
     /\ HasDataRecord(payload)
     /\ Has(DataRecord(payload), "rels")) =>
        \A n \in DOMAIN DataRecord(payload).rels :
            RelationshipShape(DataRecord(payload).rels[n], n, Body)

\* A to-many relationship of one element was written as an array of one.
C4_Witness ==
    /\ op = "marshal"
    /\ Marshalled
    /\ HasDataRecord(payload)
    /\ Has(DataRecord(payload), "rels")
    /\ DataRecord(payload).rels = [readers |-> GoSlice(<<Reader("2")>>)]
    /\ GetMember(Rel(Body, "readers"), "data") = JArr(<<JIdentifier("people", "2")>>)

(***************************************************************************)
(* C5                                                                       *)
(***************************************************************************)
\* The entry of the relationship n is there and its data is null.
NullRelationship(v, n, body) ==
    (v.kind = "struct" /\ v.id = "") =>
        /\ HasRel(body, n)
        /\ Rel(body, n) = JObj(<<Member("data", JNull)>>)

\* C5: a to-one relationship whose record has an empty id is written as
\* "data": null under its name: the name stays in relationships and no
\* object with a type and no id is written.
C5_EmptyIDToOneIsNull ==
    (/\ Marshalled
     /\ HasDataRecord(payload)
     /\ Has(DataRecord(payload), "rels")) =>
        \A n \in DOMAIN DataRecord(payload).rels :
            NullRelationship(DataRecord(payload).rels[n], n, Body)

\* A book whose author has no id was marshalled.
C5_Witness ==
    /\ op = "marshal"
    /\ payload = View(With(Book("1", "T"), "rels", [rels |-> [author |-> Author("")]]))
    /\ Marshalled
    /\ Rel(Body, "author") = JObj(<<Member("data", JNull)>>)

AttributesWhenAny(v, r) ==
    /\ HasMember(r, "attributes") <=> EncFields(Recv(v).fields, FALSE) # <<>>
    /\ HasMember(r, "attributes") => GetMember(r, "attributes") # JObj(<<>>)

AttributesOfAll(sources, objects) ==
    /\ Len(objects) = Len(sources)
    /\ \A i \in 1..Len(sources) : AttributesWhenAny(sources[i], objects[i])

\* C7: for every resource Marshal encodes (the top-level one, an element
\* of a collection, an included one), when the value's fields encode to
\* the empty object the resource object has no attributes key: Marshal
\* never writes "attributes":{}.
C7_NoEmptyAttributes ==
    Marshalled =>
        /\ AttributesOfAll(DataSources(payload), DataOf(Body))
        /\ AttributesOfAll(IncludedSources(payload), IncludedOf(Body))

\* A record whose fields are all left out was marshalled.
C7_Witness ==
    /\ op = "marshal"
    /\ payload = View(Order("1"))
    /\ Marshalled
    /\ RawBytes(Deref(out)) = "{\"data\":{\"type\":\"orders\",\"id\":\"1\"}}\n"

(***************************************************************************)
(* C8                                                                       *)
(***************************************************************************)
\* The number of resource objects with the type and id of v, and of values
\* with them.
EntriesFor(v, objects) ==
    Cardinality({j \in 1..Len(objects) : KeyOfObject(objects[j]) = KeyOfValue(v)})

OccurrencesOf(v, sources) ==
    Cardinality({j \in 1..Len(sources) : KeyOfValue(sources[j]) = KeyOfValue(v)})

ResourcesInOrder(sources, objects) ==
    /\ Len(objects) = Len(sources)
    /\ \A i \in 1..Len(sources) :
          Only(objects[i], {"type", "id", "attributes"})
            = ExpectedResource(Recv(sources[i]))

C10_ErrorsExcludeData ==
    (/\ op = "marshal"
     /\ Has(payload, "errors")
     /\ Recv(payload).errs.elems # <<>>) =>
        /\ merr = ""
        /\ HasMember(Body, "errors")
        /\ GetMember(Body, "errors") = JArr(EncErrorObjects(Recv(payload).errs.elems, FALSE))
        /\ ~HasMember(Body, "data")

(***************************************************************************)
(* What a call of Unmarshal leaves: readings of the state                   *)
(***************************************************************************)
\* The document in the bytes Unmarshal was given.
Wire == Deref(wire).body

\* json.Unmarshal accepted the bytes.
Decoded == DecDocument(Wire).err = ""

\* The target's method m was called.
Called(m) == \E i \in 1..Len(calls) : calls[i].m = m

\* The value a target's SetData hands to the projector: the target itself
\* or the value it wraps. A target without SetData is its own record.
RecordOf(t) ==
    IF "SetData" \in t.ucaps /\ t.inner.kind # "self" THEN t.inner ELSE t

\* The target's SetData, if it has one, passes the projector on.
Forwards(t) == "SetData" \in t.ucaps => t.setData = "forward"

\* The value of the field of the record r with the JSON name name.
FieldValue(r, name) ==
    r.fields[CHOOSE i \in 1..Len(r.fields) : r.fields[i].name = name].value

\* The document's data is one resource object.
HasOneResource(body) ==
    /\ body.j = "obj"
    /\ HasMember(body, "data")
    /\ GetMember(body, "data").j = "obj"

\* The document's data is a list.
HasResourceList(body) ==
    /\ body.j = "obj"
    /\ HasMember(body, "data")
    /\ GetMember(body, "data").j = "arr"

\* The document has errors, and the list is not empty.
CarriesErrors(body) ==
    /\ body.j = "obj"
    /\ HasMember(body, "errors")
    /\ GetMember(body, "errors").j = "arr"
    /\ GetMember(body, "errors").e # <<>>

(***************************************************************************)
(* C11                                                                      *)
(***************************************************************************)
\* C11: for every payload, one with GetData and GetErrors included, the
\* Document Marshal assembles never has both data and errors populated.
C11_DataAndErrorsNeverBoth ==
    doc # Nil =>
        /\ Deref(doc).Data = Nil \/ Deref(doc).Errors.isNil
        /\ ~(HasMember(Body, "data") /\ HasMember(Body, "errors"))

\* A payload with GetData and a non-empty GetErrors was marshalled.
C11_Witness ==
    /\ op = "marshal"
    /\ Has(payload, "data")
    /\ Has(payload, "errors")
    /\ Recv(payload).errs.elems # <<>>
    /\ doc # Nil
    /\ Deref(doc).Data # Nil
    /\ Deref(doc).Errors.isNil

(***************************************************************************)
(* C12                                                                      *)
(***************************************************************************)
\* C12: when the target has SetErrors and the document carries errors, the
\* errors are delivered through SetErrors and processing stops: for a
\* document with errors and data and a target that also has SetData,
\* SetData is not called and nothing is projected.
C12_ErrorsStopData ==
    (/\ op = "unmarshal"
     /\ Decoded
     /\ CarriesErrors(Wire)
     /\ HasMember(Wire, "data")
     /\ GetMember(Wire, "data").j \in {"obj", "arr"}
     /\ {"SetData", "SetErrors"} \subseteq target0.ucaps) =>
        /\ Called("SetErrors")
        /\ ~Called("SetData")
        /\ RecordOf(target) = RecordOf(target0)

(***************************************************************************)
(* C13                                                                      *)
(***************************************************************************)
\* The document with one resource that has a type, the attribute title and
\* no id.
ResourceWithoutID ==
    JObj(<<Member("data",
             JResource(<<>>, <<Member("attributes",
                                  JObj(<<Member("title", JStr("T"))>>))>>, <<>>))>>)

\* A record type with SetID, or a view handing one to the projector, with
\* no id set and no setter that refuses.
IsRecordTarget(t) ==
    /\ t.kind = "struct"
    /\ t.reject = {}
    /\ Forwards(t)
    /\ RecordOf(t).kind = "struct"
    /\ "SetID" \in RecordOf(t).ucaps
    /\ RecordOf(t).reject = {}

\* C13: Unmarshal of a document with one resource that has attributes and
\* no id member, into a target whose id is not preset, succeeds and leaves
\* the target with the attributes of the wire and the empty id.
C13_ResourceWithoutID ==
    (/\ op = "unmarshal"
     /\ Wire = ResourceWithoutID
     /\ IsRecordTarget(target0)
     /\ RecordOf(target0).id = "") =>
        /\ uerr = ""
        /\ FieldValue(RecordOf(target), "title") = "T"
        /\ RecordOf(target).id = ""

(***************************************************************************)
(* C14                                                                      *)
(***************************************************************************)
\* C14: SetType is optional. A target that has SetID and no SetType is
\* still projected from a document with one resource (attributes decoded,
\* id set) and Unmarshal succeeds; a target with SetType gets the type of
\* the wire.
C14_SetTypeOptional ==
    (/\ op = "unmarshal"
     /\ Decoded
     /\ HasOneResource(Wire)
     /\ HasMember(GetMember(Wire, "data"), "attributes")
     /\ GetMember(GetMember(Wire, "data"), "attributes")
           = JObj(<<Member("title", JStr("T"))>>)
     /\ "SetData" \in target0.ucaps
     /\ IsRecordTarget(target0)) =>
        /\ uerr = ""
        /\ FieldValue(RecordOf(target), "title") = "T"
        /\ RecordOf(target).id = StringMember(GetMember(Wire, "data"), "id")
        /\ "SetType" \in RecordOf(target).ucaps =>
              RecordOf(target).typ = StringMember(GetMember(Wire, "data"), "type")

(***************************************************************************)
(* C15                                                                      *)
(***************************************************************************)
\* A view whose SetData hands a slice to the projector.
IsSliceTarget(t) ==
    /\ "SetData" \in t.ucaps
    /\ t.setData = "forward"
    /\ t.inner.kind = "slice"

\* The title a fresh element gets from the resource r of the wire.
WireTitle(r) ==
    IF /\ HasMember(r, "attributes")
       /\ GetMember(r, "attributes").j = "obj"
       /\ HasMember(GetMember(r, "attributes"), "title")
       /\ GetMember(GetMember(r, "attributes"), "title").j = "str"
    THEN DecString(GetMember(GetMember(r, "attributes"), "title"))
    ELSE ""

\* The element e is the projection of the resource r on a fresh element.
ProjectionOf(e, r) ==
    /\ e.id = StringMember(r, "id")
    /\ e.typ = StringMember(r, "type")
    /\ FieldValue(e, "title") = WireTitle(r)
    /\ HasMember(r, "relationships") =>
          DOMAIN e.rels = {GetMember(r, "relationships").m[i].k :
                              i \in 1..Len(GetMember(r, "relationships").m)}

\* new is old followed by the projections of the resources rs, in order.
Appended(old, new, rs) ==
    /\ Len(new) = Len(old) + Len(rs)
    /\ SubSeq(new, 1, Len(old)) = old
    /\ \A i \in 1..Len(rs) : ProjectionOf(new[Len(old) + i], rs[i])

BadAttributes(r) ==
    /\ HasMember(r, "attributes")
    /\ GetMember(r, "attributes").j = "obj"
    /\ HasMember(GetMember(r, "attributes"), "title")
    /\ GetMember(GetMember(r, "attributes"), "title").j \notin {"str", "null"}

\* Projecting r on a fresh element of the slice fails.
FailsOn(r, zero) == BadAttributes(r) \/ zero.reject # {}

\* The first resource of rs whose projection fails.
FirstFailure(rs, zero) ==
    CHOOSE k \in 1..Len(rs) :
        FailsOn(rs[k], zero) /\ \A j \in 1..(k - 1) : ~FailsOn(rs[j], zero)

NoCallAfter(k) == \A j \in 1..Len(calls) : calls[j].on <= k

\* C16: in collection Unmarshal, when projecting the k-th resource fails
\* (its attributes do not decode, or a setter refuses), the resources after
\* k are not processed, Unmarshal returns the failure and the target's
\* sequence is left as it was: the elements already projected are dropped.
C16_CollectionFailureLeavesTarget ==
    (/\ op = "unmarshal"
     /\ Decoded
     /\ HasResourceList(Wire)
     /\ IsSliceTarget(target0)
     /\ "SetData" \notin target0.reject
     /\ IsUnmarshalIdentifier(target0.inner.zero)
     /\ \E i \in 1..Len(GetMember(Wire, "data").e) :
           FailsOn(GetMember(Wire, "data").e[i], target0.inner.zero)) =>
        /\ uerr \in {"decode", "SetID", "SetType", "SetRelationships"}
        /\ target = target0
        /\ NoCallAfter(FirstFailure(GetMember(Wire, "data").e, target0.inner.zero))

\* The second resource of a list failed after the first was projected.
C16_Witness ==
    /\ op = "unmarshal"
    /\ HasResourceList(Wire)
    /\ IsSliceTarget(target0)
    /\ Len(GetMember(Wire, "data").e) = 2
    /\ ~BadAttributes(GetMember(Wire, "data").e[1])
    /\ BadAttributes(GetMember(Wire, "data").e[2])
    /\ uerr = "decode"
    /\ \E j \in 1..Len(calls) : calls[j].m = "SetID" /\ calls[j].on = 1
    /\ target = target0

(***************************************************************************)
(* C17                                                                      *)
(***************************************************************************)
\* C17: when the target's SetErrors returns a failure, Unmarshal returns
\* that failure to the caller; no setter's failure is swallowed.
C17_SetErrorsFailureReturned ==
    (/\ op = "unmarshal"
     /\ "SetErrors" \in target0.reject
     /\ Called("SetErrors")) =>
        uerr = "SetErrors"

(***************************************************************************)
(* C18                                                                      *)
(***************************************************************************)
\* C18: Unmarshal of a document whose data is there and is neither an
\* object nor an array (a string, a number) returns a decoding failure and
\* projects nothing onto the target.
C18_ScalarDataFails ==
    (/\ op = "unmarshal"
     /\ Wire.j = "obj"
     /\ HasMember(Wire, "data")
     /\ GetMember(Wire, "data").j \in {"str", "int"}) =>
        /\ uerr # ""
        /\ calls = <<>>
        /\ target = target0

(***************************************************************************)
(* C19                                                                      *)
(***************************************************************************)
\* C19: when decoding the outer document fails, Unmarshal returns a
\* Document that is not nil together with the decode error and calls none
\* of the target's methods: the target is unchanged.
C19_DecodeFailureFailsFast ==
    (op = "unmarshal" /\ ~Decoded) =>
        /\ udoc # Nil
        /\ uerr = DecDocument(Wire).err
        /\ uerr # ""
        /\ calls = <<>>
        /\ target = target0

\* Malformed bytes were given with a target that has SetData and SetErrors.
C19_Witness ==
    /\ op = "unmarshal"
    /\ Wire = Malformed
    /\ {"SetData", "SetErrors"} \subseteq target0.ucaps
    /\ uerr = "syntax"
    /\ udoc = Ptr(EmptyDocument)

(***************************************************************************)
(* C20                                                                      *)
(***************************************************************************)
\* The error object of the wire e, as the Document holds it.
WireError(e) ==
    [Title |-> StringMember(e, "title"), Code |-> StringMember(e, "code"),
     Source |-> [Pointer |-> IF HasMember(e, "source")
                             THEN StringMember(GetMember(e, "source"), "pointer")
                             ELSE ""]]

HoldsErrors(d, es) ==
    /\ Len(d.Errors.elems) = Len(es)
    /\ \A i \in 1..Len(es) : d.Errors.elems[i] = WireError(es[i])

ReturnedAs(r) == merr = r.err /\ out = r.bytes /\ doc = r.doc

SucceededAs(r) == r.err = "" => ReturnedAs(r)

\* C21: Marshal is transparent to indirection. For every payload v on which
\* Marshal(v) succeeds, Marshal of a pointer to v succeeds and returns the
\* same document, for one resource and for a collection.
C21_PointerTransparent ==
    (op = "marshal" /\ payload.kind = "ptr") => SucceededAs(MarshalBytes(payload.elem))

\* A pointer to a view of two books was marshalled to a list of two.
C21_Witness ==
    /\ op = "marshal"
    /\ payload = PtrTo(View(GoSlice(<<Book("1", "T"), Book("2", "Q&A")>>)))
    /\ merr = ""
    /\ Marshalled
    /\ Len(DataOf(Body)) = 2
    /\ MarshalBytes(payload.elem).err = ""

(***************************************************************************)
(* C22                                                                      *)
(***************************************************************************)
\* The meta member of a JSON object, if it has one.
MetaMember(obj) == IF HasMember(obj, "meta") THEN <<GetMember(obj, "meta")>> ELSE <<>>

\* What GetMeta of v gives to write, if v has GetMeta and the encoding is
\* not the empty object.
MetaOfValue(v) ==
    IF Has(v, "meta") /\ EncodeValue(Recv(v).meta, FALSE) # JObj(<<>>)
    THEN <<EncodeValue(Recv(v).meta, FALSE)>>
    ELSE <<>>

\* C22: when a view with GetData is marshalled, the document's meta is the
\* view's GetMeta only and the meta of each resource object is the GetMeta
\* of the value it was made from: no top-level meta for a view without
\* GetMeta around a resource with it, top-level meta only for a view with
\* GetMeta around resources without, the same meta at both levels for a
\* value that returns itself from GetData and has GetMeta.
C22_MetaByLevel ==
    (Marshalled /\ Has(payload, "data")) =>
        /\ MetaMember(Body) = MetaOfValue(payload)
        /\ Len(DataOf(Body)) = Len(DataSources(payload))
        /\ \A i \in 1..Len(DataOf(Body)) :
              MetaMember(DataOf(Body)[i]) = MetaOfValue(DataSources(payload)[i])

\* A view without GetMeta around a book with GetMeta was marshalled: meta
\* is in the resource object and not at the top.
C22_Witness ==
    /\ op = "marshal"
    /\ Marshalled
    /\ payload = View(With(Book("1", "T"), "meta",
                           [meta |-> Plain(<<Field("sold", "int", 5, "omitempty")>>)]))
    /\ ~HasMember(Body, "meta")
    /\ GetMember(GetMember(Body, "data"), "meta") = JObj(<<Member("sold", JInt(5))>>)

(***************************************************************************)
(* C23                                                                      *)
(***************************************************************************)
\* A meta value that is not empty: a struct with a field that is not zero.
NonEmptyMeta(m) ==
    m.kind = "struct" /\ \E i \in 1..Len(m.fields) : ~IsEmptyValue(m.fields[i])

\* The meta member of obj, if there is one, is not {} and was made from a
\* value that is not empty.
MetaOnlyNonEmpty(obj, v) ==
    HasMember(obj, "meta") =>
        /\ GetMember(obj, "meta") # JObj(<<>>)
        /\ Has(v, "meta")
        /\ NonEmptyMeta(Recv(v).meta)

\* C23: a meta value that is empty or zero, of the document or of a
\* resource, is left out of Marshal's output: no meta member is {}, and a
\* meta member is there only when the meta value is not empty.
C23_EmptyMetaOmitted ==
    Marshalled =>
        /\ MetaOnlyNonEmpty(Body, payload)
        /\ Len(DataOf(Body)) = Len(DataSources(payload)) =>
              \A i \in 1..Len(DataOf(Body)) :
                  MetaOnlyNonEmpty(DataOf(Body)[i], DataSources(payload)[i])

(***************************************************************************)
(* C24                                                                      *)
(***************************************************************************)
\* The id written in the data of the to-one relationship n.
RelationshipID(body, n) == GetMember(GetMember(Rel(body, n), "data"), "id")

\* C24: in every string Marshal writes, the characters /, &, < and > pass
\* unescaped: in attribute values, in the type and id of resource objects,
\* and in the type and id of relationship identifiers.
C24_StringsUnescaped ==
    (Marshalled /\ HasDataRecord(payload)) =>
        /\ Only(GetMember(Body, "data"), {"type", "id", "attributes"})
             = ExpectedResource(DataRecord(payload))
        /\ Has(DataRecord(payload), "rels") =>
              \A n \in DOMAIN DataRecord(payload).rels :
                  (/\ DataRecord(payload).rels[n].kind = "struct"
                   /\ Has(DataRecord(payload).rels[n], "ident")
                   /\ DataRecord(payload).rels[n].id # "") =>
                        RelationshipID(Body, n) = JStr(DataRecord(payload).rels[n].id)

(***************************************************************************)
(* C25                                                                      *)
(***************************************************************************)
\* The i-th identifier of the array a is the type and id of the i-th
\* element of s.
SameOrder(s, a) ==
    /\ a.j = "arr"
    /\ Len(a.e) = Len(s)
    /\ \A i \in 1..Len(s) : KeyOfObject(a.e[i]) = KeyOfValue(s[i])

WireResource == GetMember(Wire, "data")

WireRelationships == GetMember(WireResource, "relationships")

\* A view's SetData, or the record's own, hands a record with the setters
\* of caps to the projector, and no setter refuses.
ProjectsOnto(t, caps) ==
    /\ "SetData" \in t.ucaps
    /\ IsRecordTarget(t)
    /\ IsUnmarshalIdentifier(RecordOf(t))
    /\ caps \subseteq RecordOf(t).ucaps

\* What the wire says of one relationship: one identifier for an object,
\* the list in wire order for an array, nothing for null or no data.
WireEntry(r) ==
    IF r.j # "obj" \/ ~HasMember(r, "data") THEN <<>>
    ELSE IF GetMember(r, "data").j = "obj"
    THEN <<One(DecIdentifier(GetMember(r, "data")))>>
    ELSE IF GetMember(r, "data").j = "arr"
    THEN <<Many([i \in 1..Len(GetMember(r, "data").e) |->
                    DecIdentifier(GetMember(r, "data").e[i])])>>
    ELSE <<>>

\* What a mapping holds for the name n.
HeldEntry(rels, n) == IF n \in DOMAIN rels THEN <<rels[n]>> ELSE <<>>

CallsOf(m) == {i \in 1..Len(calls) : calls[i].m = m}

\* C26: projecting a resource onto a target with SetRelationships, the
\* mapping is given whole in one call; for every relationship name of the
\* resource it holds one identifier exactly when the wire data is an
\* object, the list of identifiers in wire order exactly when it is an
\* array (the empty list for []), and no entry when the data is null or
\* absent; each identifier has the wire's type and id.
C26_RelationshipsMapping ==
    (/\ op = "unmarshal"
     /\ Decoded
     /\ uerr = ""
     /\ HasOneResource(Wire)
     /\ HasMember(WireResource, "relationships")
     /\ WireRelationships.j = "obj"
     /\ ProjectsOnto(target0, {"SetRelationships"})) =>
        /\ Cardinality(CallsOf("SetRelationships")) = 1
        /\ \A i \in CallsOf("SetRelationships") : calls[i].a = RecordOf(target).rels
        /\ \A n \in DOMAIN RecordOf(target).rels : HasMember(WireRelationships, n)
        /\ \A n \in {"author", "readers"} :
              HasMember(WireRelationships, n) =>
                  HeldEntry(RecordOf(target).rels, n)
                    = WireEntry(GetMember(WireRelationships, n))

\* A resource with a to-one author and a to-many readers was projected: the
\* mapping holds one identifier for author and a list for readers.
C26_Witness ==
    /\ op = "unmarshal"
    /\ uerr = ""
    /\ HasOneResource(Wire)
    /\ ProjectsOnto(target0, {"SetRelationships"})
    /\ Cardinality(CallsOf("SetRelationships")) = 1
    /\ RecordOf(target).rels
         = [author |-> One([Type |-> "authors", ID |-> "1"]),
            readers |-> Many(<<[Type |-> "people", ID |-> "1"]>>)]

(***************************************************************************)
(* C27                                                                      *)
(***************************************************************************)
\* The setters unmarshalResourceObject calls on a record, in its order.
StepsOf(t) ==
    <<"SetID", "SetType">>
    \o (IF "SetRelationships" \in t.ucaps THEN <<"SetRelationships">> ELSE <<>>)

IsStep(c) == c.m \notin {"SetData", "SetErrors"}

\* The calls made on the record, in their order, and their names.
StepCalls == SelectSeq(calls, IsStep)

StepNames == [i \in 1..Len(StepCalls) |-> StepCalls[i].m]

IsPrefix(s, t) == Len(s) <= Len(t) /\ \A i \in 1..Len(s) : s[i] = t[i]

\* C27: for a resource Unmarshal projects, attributes are decoded first
\* (when there are any), then SetID with the wire id, SetType with the wire
\* type, SetRelationships. The first step that fails ends the projection,
\* no later step is executed and Unmarshal returns that failure; the id the
\* target holds is the one given to SetID.
C27_StepsInOrder ==
    (/\ op = "unmarshal"
     /\ Decoded
     /\ HasOneResource(Wire)
     /\ "SetData" \in target0.ucaps
     /\ "SetData" \notin target0.reject
     /\ Forwards(target0)
     /\ IsUnmarshalIdentifier(RecordOf(target0))) =>
        /\ calls # <<>>
        /\ calls[1].m = "SetData"
        /\ IsPrefix(StepNames, StepsOf(RecordOf(target0)))
        /\ BadAttributes(WireResource) => (uerr = "decode" /\ StepCalls = <<>>)
        /\ \A m \in RecordOf(target0).reject :
              Called(m) => (uerr = m /\ StepNames[Len(StepNames)] = m)
        /\ uerr = "" =>
              /\ StepNames = StepsOf(RecordOf(target0))
              /\ StepCalls[1].a = StringMember(WireResource, "id")
              /\ StepCalls[2].a = StringMember(WireResource, "type")
              /\ RecordOf(target).id = StringMember(WireResource, "id")
              /\ RecordOf(target).typ = StringMember(WireResource, "type")

\* SetType refused: SetID was called before it, SetRelationships was not
\* called, and Unmarshal returned what SetType returned.
C27_Witness ==
    /\ op = "unmarshal"
    /\ HasOneResource(Wire)
    /\ "SetData" \in target0.ucaps
    /\ RecordOf(target0).reject = {"SetType"}
    /\ Len(calls) = 3
    /\ StepNames = <<"SetID", "SetType">>
    /\ uerr = "SetType"
    /\ ~Called("SetRelationships")

(***************************************************************************)
(* C28                                                                      *)
(***************************************************************************)
\* C28: SetRelationships is called only when the resource has
\* relationships: projecting a resource without a relationships member on a
\* target with SetRelationships does not call it, and a resource with
\* relationships has it called once.
C28_SetterOnlyWithRelationships ==
    (/\ op = "unmarshal"
     /\ Decoded
     /\ uerr = ""
     /\ HasOneResource(Wire)
     /\ ProjectsOnto(target0, {"SetRelationships"})) =>
        IF HasMember(WireResource, "relationships")
        THEN Cardinality(CallsOf("SetRelationships")) = 1
        ELSE ~Called("SetRelationships")

(***************************************************************************)
(* C29                                                                      *)
(***************************************************************************)
\* C29: for every name and value GetRelationships returns, Marshal writes
\* under the name a relationship object with a data member, or fails; it
\* never succeeds with an entry that is no such object (null) for a value
\* that is neither a record nor a sequence, such as a pointer to a record.
C29_RelationshipEntryHasData ==
    (/\ Marshalled
     /\ HasDataRecord(payload)
     /\ Has(DataRecord(payload), "rels")) =>
        \A n \in DOMAIN DataRecord(payload).rels :
            /\ HasRel(Body, n)
            /\ Rel(Body, n).j = "obj"
            /\ HasMember(Rel(Body, n), "data")

(***************************************************************************)
(* C30                                                                      *)
(***************************************************************************)
\* The document has no data, or data null, and no errors member.
NoDataNoErrors(body) ==
    /\ body.j = "obj"
    /\ ~HasMember(body, "data") \/ GetMember(body, "data").j = "null"
    /\ ~HasMember(body, "errors")

\* C30: Unmarshal of a well-formed document without data (or with data
\* null) and without errors succeeds and calls no method of the target,
\* whatever the target can do, so the target is as it was; and SetData is
\* called at most once in a call of Unmarshal, and only when data is an
\* object or an array.
C30_NoDataNoCalls ==
    (op = "unmarshal" /\ Decoded) =>
        /\ NoDataNoErrors(Wire) =>
              (uerr = "" /\ calls = <<>> /\ target = target0)
        /\ Cardinality(CallsOf("SetData")) <= 1
        /\ Called("SetData") => (HasOneResource(Wire) \/ HasResourceList(Wire))

\* A document with meta only was given to a view with SetData and
\* SetErrors: nothing was called.
C30_Witness ==
    /\ op = "unmarshal"
    /\ Wire = JObj(<<Member("meta", JObj(<<Member("count", JInt(1))>>))>>)
    /\ {"SetData", "SetErrors"} \subseteq target0.ucaps
    /\ uerr = ""
    /\ calls = <<>>
    /\ target = target0

====
